---- MODULE Spec2Model ----
(***************************************************************************)
(* A model of evennia/contrib/collab/typeclasses.py: the six namespace     *)
(* accessors generated on CollabBase, the appearance renderer, the exit    *)
(* command-set factory of CollabExit and the zone command-set cache of     *)
(* CollabRoom.                                                             *)
(*                                                                         *)
(* Python values are encoded as follows.  An object reference is a string, *)
(* the reference None is the string "None".  Any other optional value is   *)
(* a sequence of length at most one: <<>> is None and <<v>> is the value v.*)
(***************************************************************************)
EXTENDS Integers, Sequences, FiniteSets, TLC

\* ---------------------------------------------------------------- bounds
\* CmdSet objects the zone cache may construct in one behaviour.
MaxBuilds == 2
\* at_cmdset_get calls counted on one room between two resets.
MaxCalls == 2

\* Namespaces of one object that a behaviour of the namespace specification touches.
MaxHandles == 2

\* ---------------------------------------------------------------- universe
None == "None"
Rooms == {"C", "Z"}
\* The rooms whose zone cache is exercised.
ZoneRooms == {"Z"}
Exits == {"E1", "E2"}
Players == {"P1", "P2"}
Things == {"T1"}
Entities == Rooms \cup Exits \cup Players \cup Things
\* The execution contexts that may run methods of one object at a time.
Contexts == {"c1", "c2"}
\* The objects whose namespace accessors are exercised.
NsObjects == Exits \cup ZoneRooms
Tags == {"alpha", "beta"}
\* The order in which search_object_by_tag returns the objects it finds.
LookupOrder == <<"E1", "T1", "E2">>
\* Attribute keys and values stored through the namespace accessors.
Keys == {"protected", "exit_priority"}
Values == {1, 2}

VARIABLES
    room_tags,        \* room -> its tags of category zone_room, as tags.get lists them
    exit_tags,        \* exit -> its tags of category zone_exit
    destination,      \* object -> destination room, or None
    location,         \* exit -> the room it is in
    owner,            \* object -> owning player, or None
    open_exit,        \* the (actor, target) pairs that pass the open_exit lock
    ndb_zone_cmdset,  \* room -> optional cached zone CmdSet (self.ndb.zone_cmdset)
    cmdset_stack,     \* room -> the CmdSets registered in self.cmdset
    ncreated,         \* CmdSet objects constructed so far by zone_exit_commandset
    resolves,         \* room -> at_cmdset_get calls since the last reset_zone_cmdset
    rebuilds,         \* room -> zone_exit_commandset runs since the last reset_zone_cmdset
    dropped,          \* room -> optional CmdSet the last reset_zone_cmdset tore down
    attrs,            \* object -> attrtype -> key -> optional stored value
    holder,           \* object -> key -> optional DbHolder kept in _<key>_holder
    contents,         \* room -> the objects located in it (self.contents)
    view_ok,          \* the (looker, object) pairs that pass the view lock
    has_player,       \* object -> whether a player controls it
    db_desc,          \* room -> self.db.desc: None, '' or a template text
    owner_assigned,   \* the objects whose owner property was assigned
    pc,               \* context -> the statement it is to run next
    mine,             \* context -> optional CmdSet its zone_exit_commandset call returned
    last              \* the operation that ran last, with its arguments and result

vars == <<room_tags, exit_tags, destination, location, owner, open_exit,
          ndb_zone_cmdset, cmdset_stack, ncreated, resolves, rebuilds, dropped,
          attrs, holder, contents, view_ok, has_player, db_desc,
          owner_assigned, pc, mine, last>>

zone == <<room_tags, exit_tags>>
cache == <<ndb_zone_cmdset, cmdset_stack, ncreated, resolves, rebuilds, dropped>>
look == <<contents, view_ok, has_player, db_desc>>
race == <<pc, mine>>

\* ---------------------------------------------------------------- helpers
\* Truth value were a CmdSet without commands false, as a container is.
TruthyBySize(x) == x # <<>> /\ x[1].commands # {}

\* Python truth value of an optional object without __len__/__nonzero__.
Truthy(x) == x # <<>>

\* `last` after a change made by the environment (tags, locks, owners).
Env == [op |-> "env"]

\* ---------------------------------------------------------------- namespace registry
initializers == <<"WizHiddenAttributeHandler", "WizAttributeHandler",
                  "ImmortalHiddenAttributeHandler", "PublicAttributeHandler",
                  "UserAttributeHandler", "UserHiddenAttributeHandler">>

_attrtype(init) ==
    CASE init = "WizHiddenAttributeHandler" -> "wizh"
      [] init = "WizAttributeHandler" -> "wiz"
      [] init = "ImmortalHiddenAttributeHandler" -> "imh"
      [] init = "PublicAttributeHandler" -> "pub"
      [] init = "UserAttributeHandler" -> "usr"
      [] init = "UserHiddenAttributeHandler" -> "usrh"

NsIndex == 1..Len(initializers)
NsTags == {_attrtype(initializers[i]) : i \in NsIndex}

\* ---------------------------------------------------------------- accessor generator
\* The names the loop `for init in initializers` binds in its i-th round;
\* a string built by concatenation is the pair of its parts.
LoopNames ==
    [i \in NsIndex |->
        [init |-> initializers[i],
         key |-> _attrtype(initializers[i]),
         name |-> <<_attrtype(initializers[i]), "attributes">>,
         label |-> <<_attrtype(initializers[i]), "db">>]]

\* The same names as the closures would see them were they looked up when the
\* closures run, after the loop has ended.
make_descriptors_unfrozen(i) == LoopNames[Len(initializers)]

\* make_descriptors(init, key, name, label): the names its closures captured
make_descriptors(i) == LoopNames[i]

\* the round of the loop that installed the property <tag>db on CollabBase
LabelIndex(tag) == CHOOSE i \in NsIndex : LoopNames[i].label = <<tag, "db">>

\* the handler class behind the lazy property `name` of CollabBase
attributes(name) ==
    make_descriptors(CHOOSE i \in NsIndex : LoopNames[i].name = name).init

\* DbHolder(obj, name, manager_name)
DbHolder(obj, name, manager_name, serial) ==
    [obj |-> obj, name |-> name, manager_name |-> manager_name, serial |-> serial]

\* how many holders were constructed for a slot, counting a new one
NextSerial(slot) == IF slot = <<>> THEN 1 ELSE slot[1].serial + 1

\* A getter that builds a holder on every call.
getter_unmemoized(h, self, i) ==
    LET key == make_descriptors(i).key
    IN  [h EXCEPT ![self][key] =
            <<DbHolder(self, make_descriptors(i).name, <<key, "attributes">>,
                       NextSerial(h[self][key]))>>]

\* getter(self) of the i-th round: the holder slots after the call
getter(h, self, i) ==
    LET key == make_descriptors(i).key
    IN  IF h[self][key] # <<>> THEN h
        ELSE [h EXCEPT ![self][key] =
                <<DbHolder(self, make_descriptors(i).name, <<key, "attributes">>,
                           NextSerial(h[self][key]))>>]

\* the object getter(self) returns
getter_result(h, self, i) == getter(h, self, i)[self][make_descriptors(i).key][1]

\* the parameters `def setter(self)` declares
setter_parameters == 1

\* the body of setter(self) of the i-th round: the exception it raises
setter(self, i) ==
    [type |-> "Exception",
     message |-> <<"Cannot assign directly to ", make_descriptors(i).label, " object! ",
                   "Use ", make_descriptors(i).label, ".attr=value instead.">>]

\* deleter(self) of the i-th round: the exception it raises
deleter(self, i) ==
    [type |-> "Exception",
     message |-> <<"Cannot delete the ", make_descriptors(i).label, " object!">>]

\* property(getter, setter, deleter).__set__(self, value): the call
\* setter(self, value), which Python refuses when setter does not take two
\* arguments
property_set(self, i, value) ==
    IF setter_parameters = 2 THEN setter(self, i)
    ELSE [type |-> "TypeError",
          message |-> <<"setter() takes exactly 1 argument (2 given)">>]

\* property(getter, setter, deleter).__delete__(self): the call deleter(self)
property_delete(self, i) == deleter(self, i)

\* the attrtype of the handler a holder delegates to
HolderAttrType(hd) == _attrtype(attributes(hd.manager_name))

\* DbHolder.__getattribute__(attrname): handler.get(attrname)
DbHolderGet(a, hd, attrname) == a[hd.obj][HolderAttrType(hd)][attrname]

\* DbHolder.__setattr__(attrname, value): handler.add(attrname, value)
DbHolderSet(a, hd, attrname, value) ==
    [a EXCEPT ![hd.obj][HolderAttrType(hd)][attrname] = <<value>>]

\* DbHolder.__delattr__(attrname): handler.remove(attrname)
DbHolderDel(a, hd, attrname) ==
    [a EXCEPT ![hd.obj][HolderAttrType(hd)][attrname] = <<>>]

\* ---------------------------------------------------------------- ownership gate
\* collab_check(actor, target, locks=['open_exit'])
collab_check(actor, target) == <<actor, target>> \in open_exit

\* ---------------------------------------------------------------- exit factory
\* CollabExit.priority
CollabExit_priority == 0 - 30

\* The factory checking the lock of the exit's own room, whatever location it
\* is given.
create_exit_cmdset_own_room(h, self, exidbobj, loc) ==
    IF owner[self] # None /\ ~collab_check(owner[self], location[self])
    THEN [result |-> <<>>, holder |-> h, gate |-> <<<<owner[self], location[self]>>>>]
    ELSE LET cmd == [obj |-> exidbobj, destination |-> destination[exidbobj]]
             wizdb == getter_result(h, self, LabelIndex("wiz"))
             exit_priority == DbHolderGet(attrs, wizdb, "exit_priority")
             priority == IF exit_priority # <<>>
                         THEN <<CollabExit_priority>>
                         ELSE exit_priority
         IN  [result |-> <<[key |-> "ExitCmdSet", priority |-> priority,
                            duplicates |-> TRUE, commands |-> {cmd}]>>,
              holder |-> getter(h, self, LabelIndex("wiz")),
              gate |-> IF owner[self] # None
                       THEN <<<<owner[self], location[self]>>>> ELSE <<>>]

\* The factory without its ownership gate.
create_exit_cmdset_ungated(h, self, exidbobj, loc) ==
    LET cmd == [obj |-> exidbobj, destination |-> destination[exidbobj]]
        wizdb == getter_result(h, self, LabelIndex("wiz"))
        exit_priority == DbHolderGet(attrs, wizdb, "exit_priority")
        priority == IF exit_priority # <<>>
                    THEN <<CollabExit_priority>>
                    ELSE exit_priority
    IN  [result |-> <<[key |-> "ExitCmdSet", priority |-> priority,
                       duplicates |-> TRUE, commands |-> {cmd}]>>,
         holder |-> getter(h, self, LabelIndex("wiz")), gate |-> <<>>]

\* The factory asking the lock for every exit, owned or not.
create_exit_cmdset_gate_all(h, self, exidbobj, loc) ==
    LET where == IF loc # None THEN loc ELSE location[self]
        gate == <<<<owner[self], where>>>>
    IN  IF ~collab_check(owner[self], where)
        THEN [result |-> <<>>, holder |-> h, gate |-> gate]
        ELSE LET cmd == [obj |-> exidbobj, destination |-> destination[exidbobj]]
                 wizdb == getter_result(h, self, LabelIndex("wiz"))
                 exit_priority == DbHolderGet(attrs, wizdb, "exit_priority")
                 priority == IF exit_priority # <<>>
                             THEN <<CollabExit_priority>>
                             ELSE exit_priority
             IN  [result |-> <<[key |-> "ExitCmdSet", priority |-> priority,
                                duplicates |-> TRUE, commands |-> {cmd}]>>,
                  holder |-> getter(h, self, LabelIndex("wiz")), gate |-> gate]

\* CollabExit.create_exit_cmdset(self, exidbobj, location=loc), started with
\* the holder slots h: what it returns and the holder slots it leaves
create_exit_cmdset(h, self, exidbobj, loc) ==
    LET where == IF loc # None THEN loc ELSE location[self]
        gate == IF owner[self] # None THEN <<<<owner[self], where>>>> ELSE <<>>
    IN  IF owner[self] # None /\ ~collab_check(owner[self], where)
        THEN [result |-> <<>>, holder |-> h, gate |-> gate]
        ELSE LET cmd == [obj |-> exidbobj, destination |-> destination[exidbobj]]
                 wizdb == getter_result(h, self, LabelIndex("wiz"))
                 exit_priority == DbHolderGet(attrs, wizdb, "exit_priority")
                 priority == IF exit_priority # <<>>
                             THEN <<CollabExit_priority>>
                             ELSE exit_priority
             IN  [result |-> <<[key |-> "ExitCmdSet", priority |-> priority,
                                duplicates |-> TRUE, commands |-> {cmd}]>>,
                  holder |-> getter(h, self, LabelIndex("wiz")), gate |-> gate]

\* ---------------------------------------------------------------- zone cache
\* search_object_by_tag(category='zone_exit', key=tag)
search_object_by_tag(tag) ==
    SelectSeq(LookupOrder, LAMBDA e : tag \in exit_tags[e])

\* The loop keeping an object found under several tags once.
RECURSIVE ExtendAllOnce(_)
ExtendAllOnce(tags) ==
    IF tags = <<>> THEN <<>>
    ELSE LET found == search_object_by_tag(Head(tags))
         IN  found \o SelectSeq(ExtendAllOnce(Tail(tags)),
                                LAMBDA e : \A i \in 1..Len(found) : found[i] # e)

\* the loop `for tag in exit_tags: exits.extend(search_object_by_tag(...))`
RECURSIVE ExtendAll(_)
ExtendAll(tags) ==
    IF tags = <<>> THEN <<>>
    ELSE search_object_by_tag(Head(tags)) \o ExtendAll(Tail(tags))

\* hasattr(exit, 'create_exit_cmdset')
hasattr_create_exit_cmdset(e) == e \in Exits

\* CmdSet.add(bundle): the commands of the bundle are merged in; nothing is
\* merged when the factory returned nothing.
CmdSetAdd(cmdset, bundle) ==
    IF bundle = <<>> THEN cmdset
    ELSE [cmdset EXCEPT !.commands = @ \cup bundle[1].commands]

\* the loop `for exit in exits: if ...: cmdset.add(exit.create_exit_cmdset(...))`
\* run on the CmdSet under construction, the holder slots and the record of
\* the create_exit_cmdset calls made so far
RECURSIVE AddAll(_, _, _)
AddAll(acc, exits, self) ==
    IF exits = <<>> THEN acc
    ELSE LET e == Head(exits)
             made == create_exit_cmdset(acc.holder, e, e, self)
         IN  AddAll(IF destination[e] # None /\ hasattr_create_exit_cmdset(e)
                    THEN [cmdset |-> CmdSetAdd(acc.cmdset, made.result),
                          holder |-> made.holder,
                          calls |-> Append(acc.calls,
                                           [self |-> e, exidbobj |-> e, location |-> self])]
                    ELSE acc,
                    Tail(exits), self)

\* CollabRoom.zone_exit_commandset(self); id is the identity of the new CmdSet.
\* Gives the CmdSet, the holder slots of the exits after the run and the
\* create_exit_cmdset calls made.
zone_exit_commandset(self, id) ==
    AddAll([cmdset |-> [id |-> id, cmdsetobj |-> self, commands |-> {}],
            holder |-> holder, calls |-> <<>>],
           ExtendAll(room_tags[self]), self)

\* self.cmdset.add(cmdset)
CmdSetHandlerAdd(stack, cmdset) == Append(stack, cmdset)

\* self.cmdset.remove(cmdset)
CmdSetHandlerRemove(stack, cmdset) == SelectSeq(stack, LAMBDA c : c # cmdset)

\* CollabRoom.at_cmdset_get(self)
at_cmdset_get(self) ==
    /\ resolves[self] < MaxCalls
    /\ IF ~Truthy(ndb_zone_cmdset[self])
       THEN /\ ncreated < MaxBuilds
            /\ LET built == zone_exit_commandset(self, ncreated + 1)
               IN  /\ ndb_zone_cmdset' = [ndb_zone_cmdset EXCEPT ![self] = <<built.cmdset>>]
                   /\ cmdset_stack' = [cmdset_stack EXCEPT
                                         ![self] = CmdSetHandlerAdd(@, built.cmdset)]
                   /\ holder' = built.holder
                   /\ last' = [op |-> "at_cmdset_get", room |-> self,
                               before |-> ndb_zone_cmdset[self], calls |-> built.calls]
            /\ ncreated' = ncreated + 1
            /\ rebuilds' = [rebuilds EXCEPT ![self] = @ + 1]
       ELSE /\ last' = [op |-> "at_cmdset_get", room |-> self,
                        before |-> ndb_zone_cmdset[self], calls |-> <<>>]
            /\ UNCHANGED <<ndb_zone_cmdset, cmdset_stack, ncreated, rebuilds, holder>>
    /\ resolves' = [resolves EXCEPT ![self] = @ + 1]
    /\ UNCHANGED <<race, owner_assigned, look, zone, destination, location, owner, open_exit, attrs, dropped>>

\* A reset that deletes the cache entry and leaves the registration.
reset_zone_cmdset_keeps_registration(self) ==
    /\ IF Truthy(ndb_zone_cmdset[self])
       THEN /\ ndb_zone_cmdset' = [ndb_zone_cmdset EXCEPT ![self] = <<>>]
            /\ dropped' = [dropped EXCEPT ![self] = ndb_zone_cmdset[self]]
       ELSE UNCHANGED <<ndb_zone_cmdset, dropped>>
    /\ resolves' = [resolves EXCEPT ![self] = 0]
    /\ rebuilds' = [rebuilds EXCEPT ![self] = 0]
    /\ last' = [op |-> "reset_zone_cmdset", room |-> self,
                before |-> ndb_zone_cmdset[self]]
    /\ UNCHANGED <<race, owner_assigned, look, zone, destination, location, owner, open_exit, ncreated, attrs,
                   holder, cmdset_stack>>

\* A reset that drops the registration and keeps the cache entry.
reset_zone_cmdset_keeps_entry(self) ==
    /\ IF Truthy(ndb_zone_cmdset[self])
       THEN cmdset_stack' = [cmdset_stack EXCEPT
                               ![self] = CmdSetHandlerRemove(@, ndb_zone_cmdset[self][1])]
       ELSE UNCHANGED cmdset_stack
    /\ resolves' = [resolves EXCEPT ![self] = 0]
    /\ rebuilds' = [rebuilds EXCEPT ![self] = 0]
    /\ last' = [op |-> "reset_zone_cmdset", room |-> self,
                before |-> ndb_zone_cmdset[self]]
    /\ UNCHANGED <<race, owner_assigned, look, zone, destination, location, owner, open_exit, ncreated, attrs,
                   holder, ndb_zone_cmdset, dropped>>

\* CollabRoom.reset_zone_cmdset(self)
reset_zone_cmdset(self) ==
    /\ IF Truthy(ndb_zone_cmdset[self])
       THEN /\ cmdset_stack' = [cmdset_stack EXCEPT
                                  ![self] = CmdSetHandlerRemove(@, ndb_zone_cmdset[self][1])]
            /\ ndb_zone_cmdset' = [ndb_zone_cmdset EXCEPT ![self] = <<>>]
            /\ dropped' = [dropped EXCEPT ![self] = ndb_zone_cmdset[self]]
       ELSE UNCHANGED <<ndb_zone_cmdset, cmdset_stack, dropped>>
    /\ resolves' = [resolves EXCEPT ![self] = 0]
    /\ rebuilds' = [rebuilds EXCEPT ![self] = 0]
    /\ last' = [op |-> "reset_zone_cmdset", room |-> self,
                before |-> ndb_zone_cmdset[self]]
    /\ UNCHANGED <<race, owner_assigned, look, zone, destination, location, owner, open_exit, ncreated, attrs, holder>>

\* ---------------------------------------------------------------- environment
\* obj.tags.add(tag, category='zone_room')
AddRoomTag(r, t) ==
    /\ \A i \in 1..Len(room_tags[r]) : room_tags[r][i] # t
    /\ room_tags' = [room_tags EXCEPT ![r] = Append(@, t)]
    /\ last' = Env
    /\ UNCHANGED <<race, owner_assigned, look, exit_tags, destination, location, owner, open_exit, cache, attrs, holder>>

\* obj.tags.remove(tag, category='zone_room')
RemoveRoomTag(r, t) ==
    /\ \E i \in 1..Len(room_tags[r]) : room_tags[r][i] = t
    /\ room_tags' = [room_tags EXCEPT ![r] = SelectSeq(@, LAMBDA x : x # t)]
    /\ last' = Env
    /\ UNCHANGED <<race, owner_assigned, look, exit_tags, destination, location, owner, open_exit, cache, attrs, holder>>

\* exit.tags.add(tag, category='zone_exit')
AddExitTag(e, t) ==
    /\ t \notin exit_tags[e]
    /\ exit_tags' = [exit_tags EXCEPT ![e] = @ \cup {t}]
    /\ last' = Env
    /\ UNCHANGED <<race, owner_assigned, look, room_tags, destination, location, owner, open_exit, cache, attrs, holder>>

\* exit.tags.remove(tag, category='zone_exit')
RemoveExitTag(e, t) ==
    /\ t \in exit_tags[e]
    /\ exit_tags' = [exit_tags EXCEPT ![e] = @ \ {t}]
    /\ last' = Env
    /\ UNCHANGED <<race, owner_assigned, look, room_tags, destination, location, owner, open_exit, cache, attrs, holder>>

\* exit.destination = d
SetDestination(e, d) ==
    /\ destination[e] # d
    /\ destination' = [destination EXCEPT ![e] = d]
    /\ last' = Env
    /\ UNCHANGED <<race, owner_assigned, look, zone, location, owner, open_exit, cache, attrs, holder>>

\* exit.location = r
SetLocation(e, r) ==
    /\ location[e] # r
    /\ location' = [location EXCEPT ![e] = r]
    /\ last' = Env
    /\ UNCHANGED <<race, owner_assigned, look, zone, destination, owner, open_exit, cache, attrs, holder>>

\* CollabBase.owner setter: set_owner(value, self)
SetOwner(e, p) ==
    /\ owner[e] # p
    /\ owner' = [owner EXCEPT ![e] = p]
    /\ last' = Env
    /\ UNCHANGED <<race, owner_assigned, look, zone, destination, location, open_exit, cache, attrs, holder>>

\* the open_exit lock of room r starts or stops passing for actor p
SetLock(p, r, pass) ==
    /\ (<<p, r>> \in open_exit) # pass
    /\ open_exit' = IF pass THEN open_exit \cup {<<p, r>>}
                    ELSE open_exit \ {<<p, r>>}
    /\ last' = Env
    /\ UNCHANGED <<race, owner_assigned, look, zone, destination, location, owner, cache, attrs, holder>>

\* ---------------------------------------------------------------- zone specification
Init ==
    /\ room_tags = [r \in Rooms |-> <<>>]
    /\ exit_tags = [e \in Exits \cup Things |-> {}]
    /\ destination = [e \in Entities |-> IF e \in Exits THEN "C" ELSE None]
    /\ location = [e \in Exits |-> "C"]
    /\ owner = [e \in Entities |-> None]
    /\ open_exit = {}
    /\ ndb_zone_cmdset = [r \in Rooms |-> <<>>]
    /\ cmdset_stack = [r \in Rooms |-> <<>>]
    /\ ncreated = 0
    /\ resolves = [r \in Rooms |-> 0]
    /\ rebuilds = [r \in Rooms |-> 0]
    /\ dropped = [r \in Rooms |-> <<>>]
    /\ attrs = [e \in NsObjects |-> [t \in NsTags |-> [k \in Keys |-> <<>>]]]
    /\ holder = [e \in NsObjects |-> [t \in NsTags |-> <<>>]]
    /\ contents = [r \in Rooms |-> {}]
    /\ view_ok = {}
    /\ has_player = [e \in Entities |-> FALSE]
    /\ db_desc = [r \in Rooms |-> None]
    /\ owner_assigned = {}
    /\ pc = [c \in Contexts |-> "idle"]
    /\ mine = [c \in Contexts |-> <<>>]
    /\ last = Env

Next ==
    \/ \E r \in ZoneRooms : at_cmdset_get(r)
    \/ \E r \in ZoneRooms : reset_zone_cmdset(r)
    \/ \E r \in ZoneRooms, t \in Tags : AddRoomTag(r, t)
    \/ \E r \in ZoneRooms, t \in Tags : RemoveRoomTag(r, t)
    \/ \E e \in Exits, t \in Tags : AddExitTag(e, t)
    \/ \E e \in Exits, t \in Tags : RemoveExitTag(e, t)
    \/ \E e \in Exits, d \in {None, "C"} : SetDestination(e, d)
    \/ \E e \in Exits, p \in {None, "P1"} : SetOwner(e, p)
    \/ \E r \in ZoneRooms, pass \in BOOLEAN : SetLock("P1", r, pass)

Spec == Init /\ [][Next]_vars

\* ---------------------------------------------------------------- build order specification
\* The objects that carry zone_exit tags: two exits and a thing, which has no
\* create_exit_cmdset.
Tagged == {"E1", "E2", "T1"}

NextOrder ==
    \/ \E r \in ZoneRooms : at_cmdset_get(r)
    \/ \E r \in ZoneRooms : reset_zone_cmdset(r)
    \/ \E r \in ZoneRooms, t \in Tags : AddRoomTag(r, t)
    \/ \E r \in ZoneRooms, t \in Tags : RemoveRoomTag(r, t)
    \/ \E e \in Tagged, t \in Tags : AddExitTag(e, t)
    \/ \E e \in Tagged, t \in Tags : RemoveExitTag(e, t)
    \/ \E e \in Tagged, d \in {None, "C"} : SetDestination(e, d)

SpecOrder == Init /\ [][NextOrder]_vars

\* ---------------------------------------------------------------- interleaved contexts
\* CmdSet objects the interleaved contexts may construct in one behaviour.
MaxRaceBuilds == 3

\* A check that finds the cache empty whatever it holds.
CacheMissAlways(self) == TRUE

\* `if not self.ndb.zone_cmdset`
CacheMiss(self) == ~Truthy(ndb_zone_cmdset[self])

\* at_cmdset_get, the test of line 263, run by context c
RaceCheck(c, self) ==
    /\ pc[c] = "idle"
    /\ pc' = [pc EXCEPT ![c] = IF CacheMiss(self) THEN "build" ELSE "idle"]
    /\ last' = [op |-> "check", ctx |-> c, room |-> self, miss |-> CacheMiss(self)]
    /\ UNCHANGED <<mine, owner_assigned, look, zone, destination, location, owner,
                   open_exit, cache, attrs, holder>>

\* at_cmdset_get, the call self.zone_exit_commandset() of line 264, run by
\* context c; the CmdSet it returns is not stored yet
RaceBuild(c, self) ==
    /\ pc[c] = "build"
    /\ ncreated < MaxRaceBuilds
    /\ LET built == zone_exit_commandset(self, ncreated + 1)
       IN  /\ mine' = [mine EXCEPT ![c] = <<built.cmdset>>]
           /\ holder' = built.holder
           /\ last' = [op |-> "build", ctx |-> c, room |-> self, calls |-> built.calls]
    /\ ncreated' = ncreated + 1
    /\ rebuilds' = [rebuilds EXCEPT ![self] = @ + 1]
    /\ pc' = [pc EXCEPT ![c] = "store"]
    /\ UNCHANGED <<owner_assigned, look, zone, destination, location, owner, open_exit,
                   ndb_zone_cmdset, cmdset_stack, resolves, dropped, attrs>>

\* at_cmdset_get, the assignment self.ndb.zone_cmdset = ... of line 264, run
\* by context c
RaceStore(c, self) ==
    /\ pc[c] = "store"
    /\ ndb_zone_cmdset' = [ndb_zone_cmdset EXCEPT ![self] = mine[c]]
    /\ pc' = [pc EXCEPT ![c] = "add"]
    /\ last' = [op |-> "store", ctx |-> c, room |-> self]
    /\ UNCHANGED <<mine, owner_assigned, look, zone, destination, location, owner,
                   open_exit, cmdset_stack, ncreated, resolves, rebuilds, dropped,
                   attrs, holder>>

\* at_cmdset_get, line 265, run by context c: self.ndb.zone_cmdset is read
\* again and what it holds now is registered
RaceAdd(c, self) ==
    /\ pc[c] = "add"
    /\ cmdset_stack' = [cmdset_stack EXCEPT
                          ![self] = CmdSetHandlerAdd(@, ndb_zone_cmdset[self][1])]
    /\ pc' = [pc EXCEPT ![c] = "idle"]
    /\ mine' = [mine EXCEPT ![c] = <<>>]
    /\ last' = [op |-> "add", ctx |-> c, room |-> self]
    /\ UNCHANGED <<owner_assigned, look, zone, destination, location, owner, open_exit,
                   ndb_zone_cmdset, ncreated, resolves, rebuilds, dropped, attrs, holder>>

\* getter(self) of the i-th round, the try of lines 152-153, run by context
\* c: it returns the holder kept, or goes on to the except clause
RaceTry(c, self, i) ==
    /\ pc[c] = "idle"
    /\ pc' = [pc EXCEPT ![c] = IF holder[self][make_descriptors(i).key] # <<>>
                               THEN "idle" ELSE "setattr"]
    /\ last' = [op |-> "try", ctx |-> c, obj |-> self,
                had |-> holder[self][make_descriptors(i).key]]
    /\ UNCHANGED <<mine, owner_assigned, look, zone, destination, location, owner,
                   open_exit, cache, attrs, holder>>

\* getter(self) of the i-th round, the except clause of lines 154-156, run by
\* context c: a DbHolder is constructed and kept, whatever is kept by now
RaceSetattr(c, self, i) ==
    /\ pc[c] = "setattr"
    /\ LET key == make_descriptors(i).key
       IN  holder' = [holder EXCEPT ![self][key] =
                        <<DbHolder(self, make_descriptors(i).name, <<key, "attributes">>,
                                   NextSerial(holder[self][key]))>>]
    /\ pc' = [pc EXCEPT ![c] = "idle"]
    /\ last' = [op |-> "setattr", ctx |-> c, obj |-> self]
    /\ UNCHANGED <<mine, owner_assigned, look, zone, destination, location, owner,
                   open_exit, cache, attrs>>

\* The object and the namespace whose getter the contexts call.
RaceObject == "E2"
RaceTag == "imh"

NextRace ==
    \/ \E c \in Contexts, r \in ZoneRooms : RaceCheck(c, r)
    \/ \E c \in Contexts, r \in ZoneRooms : RaceBuild(c, r)
    \/ \E c \in Contexts, r \in ZoneRooms : RaceStore(c, r)
    \/ \E c \in Contexts, r \in ZoneRooms : RaceAdd(c, r)
    \/ \E c \in Contexts : RaceTry(c, RaceObject, LabelIndex(RaceTag))
    \/ \E c \in Contexts : RaceSetattr(c, RaceObject, LabelIndex(RaceTag))
    \/ \E r \in ZoneRooms : AddRoomTag(r, "alpha")
    \/ \E r \in ZoneRooms : RemoveRoomTag(r, "alpha")
    \/ AddExitTag("E1", "alpha")
    \/ RemoveExitTag("E1", "alpha")

SpecRace == Init /\ [][NextRace]_vars

\* ---------------------------------------------------------------- namespace operations
\* what obj.<tag>db.<key> reads with the stored attributes a and holder slots h
Read(a, h, obj, tag, key) ==
    DbHolderGet(a, getter_result(h, obj, LabelIndex(tag)), key)

\* what the six accessors of obj read for key
ReadAll(a, h, obj, key) == [u \in NsTags |-> Read(a, h, obj, u, key)]

\* value = obj.<tag>db.<key>
NsGet(obj, tag, key) ==
    /\ holder' = getter(holder, obj, LabelIndex(tag))
    /\ last' = [op |-> "get", obj |-> obj, tag |-> tag, key |-> key,
                had |-> holder[obj][tag], handle |-> getter_result(holder, obj, LabelIndex(tag)),
                result |-> Read(attrs, holder, obj, tag, key)]
    /\ UNCHANGED <<race, owner_assigned, look, zone, destination, location, owner, open_exit, cache, attrs>>

\* get_owner(target): the owner relation of target
get_owner(target) == owner[target]

\* set_owner(owner, target): the owner relation after the call
set_owner(value, target) == [owner EXCEPT ![target] = value]

\* The owner setter passing its arguments to set_owner in the other order.
owner_setter_transposed(self, value) == set_owner(self, value)

\* CollabBase.owner, the property getter
owner_getter(self) == get_owner(self)

\* CollabBase.owner, the property setter: the owner relation it leaves
owner_setter(self, value) == set_owner(value, self)

\* A check_protected reading the wiz namespace.
check_protected_wiz(a, h, self) ==
    [result |-> Read(a, h, self, "wiz", "protected"),
     holder |-> getter(h, self, LabelIndex("wiz"))]

\* CollabBase.check_protected(self) with the stored attributes a and holder
\* slots h: the value returned and the holder slots left
check_protected(a, h, self) ==
    [result |-> Read(a, h, self, "imh", "protected"),
     holder |-> getter(h, self, LabelIndex("imh"))]

\* obj.<tag>db.<key> = value
NsSet(obj, tag, key, value) ==
    /\ holder' = getter(holder, obj, LabelIndex(tag))
    /\ attrs' = DbHolderSet(attrs, getter_result(holder, obj, LabelIndex(tag)), key, value)
    /\ last' = [op |-> "set", obj |-> obj, tag |-> tag, key |-> key, value |-> value,
                had |-> holder[obj][tag], handle |-> getter_result(holder, obj, LabelIndex(tag)),
                seen |-> ReadAll(attrs, holder, obj, key),
                owner |-> owner_getter(obj),
                protected |-> check_protected(attrs, holder, obj).result]
    /\ UNCHANGED <<race, owner_assigned, look, zone, destination, location, owner, open_exit, cache>>

\* del obj.<tag>db.<key>
NsDel(obj, tag, key) ==
    /\ holder' = getter(holder, obj, LabelIndex(tag))
    /\ attrs' = DbHolderDel(attrs, getter_result(holder, obj, LabelIndex(tag)), key)
    /\ last' = [op |-> "del", obj |-> obj, tag |-> tag, key |-> key,
                had |-> holder[obj][tag], handle |-> getter_result(holder, obj, LabelIndex(tag)),
                seen |-> ReadAll(attrs, holder, obj, key),
                owner |-> owner_getter(obj),
                protected |-> check_protected(attrs, holder, obj).result]
    /\ UNCHANGED <<race, owner_assigned, look, zone, destination, location, owner, open_exit, cache>>

\* ---------------------------------------------------------------- exit factory specification
\* bundle = exit.create_exit_cmdset(exit, location=loc); loc None is the default
CallCreateExitCmdset(e, loc) ==
    LET made == create_exit_cmdset(holder, e, e, loc)
    IN  /\ holder' = made.holder
        /\ last' = [op |-> "create_exit_cmdset", exit |-> e, loc |-> loc,
                    result |-> made.result, gate |-> made.gate]
        /\ UNCHANGED <<race, owner_assigned, look, zone, destination, location, owner, open_exit, cache, attrs>>

\* The exits the factory is called on directly.
FactoryExits == {"E1"}

NextExit ==
    \/ \E e \in FactoryExits, loc \in Rooms \cup {None} : CallCreateExitCmdset(e, loc)
    \/ \E e \in FactoryExits, p \in Players \cup {None} : SetOwner(e, p)
    \/ \E p \in Players, r \in Rooms, pass \in BOOLEAN : SetLock(p, r, pass)
    \/ \E e \in FactoryExits, r \in Rooms : SetLocation(e, r)
    \/ \E e \in FactoryExits, v \in Values : NsSet(e, "wiz", "exit_priority", v)
    \/ \E e \in FactoryExits : NsDel(e, "wiz", "exit_priority")

SpecExit == Init /\ [][NextExit]_vars

\* ---------------------------------------------------------------- namespace specification
\* obj.<tag>db = value
AssignHandle(obj, tag, value) ==
    /\ last' = [op |-> "assign", obj |-> obj, tag |-> tag,
                error |-> property_set(obj, LabelIndex(tag), value),
                slots |-> holder[obj], stored |-> attrs[obj]]
    /\ UNCHANGED <<race, owner_assigned, look, zone, destination, location, owner, open_exit, cache, attrs, holder>>

\* del obj.<tag>db
DeleteHandle(obj, tag) ==
    /\ last' = [op |-> "delete", obj |-> obj, tag |-> tag,
                error |-> property_delete(obj, LabelIndex(tag)),
                slots |-> holder[obj], stored |-> attrs[obj]]
    /\ UNCHANGED <<race, owner_assigned, look, zone, destination, location, owner, open_exit, cache, attrs, holder>>

\* obj.owner
ReadOwner(obj) ==
    /\ last' = [op |-> "owner", obj |-> obj, result |-> owner_getter(obj)]
    /\ UNCHANGED <<race, owner_assigned, look, zone, destination, location, owner, open_exit,
                   cache, attrs, holder>>

\* obj.owner = value
AssignOwner(obj, value) ==
    /\ owner' = owner_setter(obj, value)
    /\ owner_assigned' = owner_assigned \cup {obj}
    /\ last' = [op |-> "owner=", obj |-> obj, value |-> value]
    /\ UNCHANGED <<race, look, zone, destination, location, open_exit, cache, attrs, holder>>

\* obj.check_protected()
CallCheckProtected(obj) ==
    LET call == check_protected(attrs, holder, obj)
    IN  /\ holder' = call.holder
        /\ last' = [op |-> "check_protected", obj |-> obj, result |-> call.result]
        /\ UNCHANGED <<race, owner_assigned, look, zone, destination, location, owner,
                       open_exit, cache, attrs>>

\* The object and the key the namespace specification works on.
NsSubjects == {"E1"}
NsKeys == {"protected"}

\* the namespace tag of obj has a holder, or one more may be built
MayTouch(obj, tag) ==
    \/ holder[obj][tag] # <<>>
    \/ Cardinality({t \in NsTags : holder[obj][t] # <<>>}) < MaxHandles

NextNs ==
    \/ \E o \in NsSubjects, t \in NsTags, k \in NsKeys :
          MayTouch(o, t) /\ NsGet(o, t, k)
    \/ \E o \in NsSubjects, t \in NsTags, k \in NsKeys, v \in Values :
          MayTouch(o, t) /\ NsSet(o, t, k, v)
    \/ \E o \in NsSubjects, t \in NsTags, k \in NsKeys :
          MayTouch(o, t) /\ NsDel(o, t, k)
    \/ \E o \in NsSubjects, t \in NsTags, v \in Values : AssignHandle(o, t, v)
    \/ \E o \in NsSubjects, t \in NsTags : DeleteHandle(o, t)
    \/ \E o \in NsSubjects : ReadOwner(o)
    \/ \E o \in NsSubjects, p \in Players : AssignOwner(o, p)
    \/ \E o \in NsSubjects : MayTouch(o, "imh") /\ CallCheckProtected(o)

SpecNs == Init /\ [][NextNs]_vars

\* ---------------------------------------------------------------- appearance renderer
\* A Python string is the sequence of its pieces; each piece is a tuple of
\* strings: a literal of the code, a display name, or a rendered template.
Lit(text) == <<"lit", text>>

\* con.get_display_name(looker)
get_display_name(obj, looker) == <<"name", obj, looker>>

\* evtemplate(text, run_as=..., me=..., this=..., how=...): the empty template
\* renders as the empty string
evtemplate(text, run_as, me, this, how) ==
    IF text = "" THEN <<>> ELSE <<<<"rendered", text, run_as, me, this, how>>>>

\* The objects of a room in the order self.contents lists them.
ContentOrder == <<"E1", "P2", "T1">>

\* separator.join(parts)
RECURSIVE join(_, _)
join(separator, parts) ==
    IF parts = <<>> THEN <<>>
    ELSE IF Len(parts) = 1 THEN parts[1]
    ELSE parts[1] \o <<separator>> \o join(separator, Tail(parts))

\* The loop asking for a controlling player before it asks for a destination.
RECURSIVE SortPlayerFirst(_, _, _)
SortPlayerFirst(acc, visible, looker) ==
    IF visible = <<>> THEN acc
    ELSE LET con == Head(visible)
             key == <<get_display_name(con, looker)>>
         IN  SortPlayerFirst(
                  IF has_player[con]
                  THEN [acc EXCEPT !.users = Append(@, <<Lit("{c")>> \o key \o <<Lit("{n")>>)]
                  ELSE IF destination[con] # None
                  THEN [acc EXCEPT !.exits = Append(@, key)]
                  ELSE [acc EXCEPT !.things = Append(@, key)],
                  Tail(visible), looker)

\* the loop `for con in visible` filling exits, users and things
RECURSIVE Sort(_, _, _)
Sort(acc, visible, looker) ==
    IF visible = <<>> THEN acc
    ELSE LET con == Head(visible)
             key == <<get_display_name(con, looker)>>
         IN  Sort(IF destination[con] # None
                  THEN [acc EXCEPT !.exits = Append(@, key)]
                  ELSE IF has_player[con]
                  THEN [acc EXCEPT !.users = Append(@, <<Lit("{c")>> \o key \o <<Lit("{n")>>)]
                  ELSE [acc EXCEPT !.things = Append(@, key)],
                  Tail(visible), looker)

\* Evaluating the template under the authority of the one who looks.
RunAsLooker(self, looker) == looker

\* run_as=self.owner
RunAs(self, looker) == owner[self]

\* A second section printed for plain objects only.
ShowsThingsOnly(users, things) == things # <<>>

\* `if users or things`
ShowsYouSee(users, things) == users # <<>> \/ things # <<>>

\* A renderer that goes on without a looker.
NoLookerIgnored(looker) == FALSE

\* `if not looker`
NoLooker(looker) == looker = None

\* CollabBase.return_appearance(self, looker): the value returned, the calls
\* of evtemplate, the objects whose view lock was evaluated, and whether
\* self.contents was read
return_appearance(self, looker) ==
    IF NoLooker(looker)
    THEN [result |-> <<>>, evtemplate |-> <<>>, view_checks |-> <<>>,
          contents_read |-> FALSE]
    ELSE LET listed == SelectSeq(ContentOrder, LAMBDA con : con \in contents[self])
             others == SelectSeq(listed, LAMBDA con : con # looker)
             visible == SelectSeq(others, LAMBDA con : <<looker, con>> \in view_ok)
             sorted == Sort([exits |-> <<>>, users |-> <<>>, things |-> <<>>],
                            visible, looker)
             header == <<Lit("{c"), get_display_name(self, looker), Lit("{n\n")>>
             text == IF db_desc[self] = None THEN "" ELSE db_desc[self]
             desc == evtemplate(text, RunAs(self, looker), looker, self, "desc")
             string1 == header \o desc
             string2 == IF sorted.exits # <<>>
                        THEN string1 \o <<Lit("\n{wExits:{n ")>>
                                     \o join(Lit(", "), sorted.exits)
                        ELSE string1
             string3 == IF ShowsYouSee(sorted.users, sorted.things)
                        THEN string2 \o <<Lit("\n{wYou see:{n ")>>
                                     \o join(Lit(", "), sorted.users \o sorted.things)
                        ELSE string2
         IN  [result |-> <<string3>>,
              evtemplate |-> <<[text |-> text, run_as |-> RunAs(self, looker),
                                me |-> looker, this |-> self, how |-> "desc"]>>,
              view_checks |-> others,
              contents_read |-> TRUE]

\* ---------------------------------------------------------------- appearance specification
\* text = room.return_appearance(looker)
CallReturnAppearance(self, looker) ==
    /\ last' = [op |-> "return_appearance", self |-> self, looker |-> looker,
                call |-> return_appearance(self, looker)]
    /\ UNCHANGED <<race, owner_assigned, look, zone, destination, location, owner, open_exit, cache, attrs, holder>>

\* obj.location = room, or obj.location = None
SetContents(r, obj, inside) ==
    /\ (obj \in contents[r]) # inside
    /\ contents' = [contents EXCEPT ![r] = IF inside THEN @ \cup {obj} ELSE @ \ {obj}]
    /\ last' = Env
    /\ UNCHANGED <<race, owner_assigned, view_ok, has_player, db_desc, zone, destination, location, owner,
                   open_exit, cache, attrs, holder>>

\* the view lock of obj starts or stops passing for looker
SetView(looker, obj, pass) ==
    /\ (<<looker, obj>> \in view_ok) # pass
    /\ view_ok' = IF pass THEN view_ok \cup {<<looker, obj>>}
                  ELSE view_ok \ {<<looker, obj>>}
    /\ last' = Env
    /\ UNCHANGED <<race, owner_assigned, contents, has_player, db_desc, zone, destination, location, owner,
                   open_exit, cache, attrs, holder>>

\* a player takes or leaves control of obj
SetHasPlayer(obj, controlled) ==
    /\ has_player[obj] # controlled
    /\ has_player' = [has_player EXCEPT ![obj] = controlled]
    /\ last' = Env
    /\ UNCHANGED <<race, owner_assigned, contents, view_ok, db_desc, zone, destination, location, owner,
                   open_exit, cache, attrs, holder>>

\* room.db.desc = text
SetDesc(r, text) ==
    /\ db_desc[r] # text
    /\ db_desc' = [db_desc EXCEPT ![r] = text]
    /\ last' = Env
    /\ UNCHANGED <<race, owner_assigned, contents, view_ok, has_player, zone, destination, location, owner,
                   open_exit, cache, attrs, holder>>

\* The room looked at, those who look, and what the room may hold.
LookRooms == {"Z"}
Lookers == {"P1", "P2"}
Items == {"E1", "P2", "T1"}

NextLook ==
    \/ \E r \in LookRooms, looker \in Lookers \cup {None} : CallReturnAppearance(r, looker)
    \/ \E r \in LookRooms, obj \in Items, inside \in BOOLEAN : SetContents(r, obj, inside)
    \/ \E looker \in Lookers, obj \in Items, pass \in BOOLEAN : SetView(looker, obj, pass)
    \/ \E obj \in {"E1", "P2"}, controlled \in BOOLEAN : SetHasPlayer(obj, controlled)
    \/ \E r \in LookRooms, text \in {None, "", "a desc"} : SetDesc(r, text)
    \/ \E d \in {None, "C"} : SetDestination("E1", d)
    \/ \E r \in LookRooms, p \in Players \cup {None} : SetOwner(r, p)

SpecLook == Init /\ [][NextLook]_vars

\* ---------------------------------------------------------------- zone cache properties
\* the exits with a command in an optional CmdSet
ExitsIn(slot) == IF slot = <<>> THEN {} ELSE {c.obj : c \in slot[1].commands}

\* exit e carries a zone_exit tag that is one of the zone_room tags of room r
TagMatch(e, r) == \E i \in 1..Len(room_tags[r]) : room_tags[r][i] \in exit_tags[e]

\* the owner of e, if any, passes the open_exit lock of room r
Permitted(e, r) == owner[e] = None \/ <<owner[e], r>> \in open_exit

\* C1: between two resets, however often at_cmdset_get is called on a room, the
\* zone aggregate is built exactly once (also when it is empty), and a call
\* that finds the cache built leaves the very same aggregate object in it.
C1_BuiltOncePerReset ==
    \A r \in ZoneRooms :
        /\ resolves[r] >= 1 => rebuilds[r] = 1 /\ ndb_zone_cmdset[r] # <<>>
        /\ (last.op = "at_cmdset_get" /\ last.room = r /\ resolves[r] >= 2)
              => last.before # <<>> /\ ndb_zone_cmdset[r] = last.before

\* C1 witness: a second call in a row on a room whose aggregate is empty.
C1_Witness ==
    /\ last.op = "at_cmdset_get" /\ last.room = "Z"
    /\ resolves["Z"] >= 2
    /\ ndb_zone_cmdset["Z"] # <<>> /\ ndb_zone_cmdset["Z"][1].commands = {}

\* C2: the first resolution of a room after a reset (or ever) yields an
\* aggregate that holds a command of every permitted exit with a destination
\* whose zone_exit tag matches a zone_room tag of the room, and no command of
\* an exit without a matching tag.
C2_ResolutionFollowsTags ==
    \A r \in ZoneRooms :
        (last.op = "at_cmdset_get" /\ last.room = r /\ resolves[r] = 1) =>
            /\ ndb_zone_cmdset[r] # <<>>
            /\ \A e \in Exits :
                /\ (TagMatch(e, r) /\ destination[e] # None /\ Permitted(e, r))
                      => e \in ExitsIn(ndb_zone_cmdset[r])
                /\ ~TagMatch(e, r) => e \notin ExitsIn(ndb_zone_cmdset[r])

\* C2 witness: E1 had a command in the aggregate torn down by the last reset,
\* lost its alpha tag, and the next resolution of Z left it out.
C2_Witness ==
    /\ last.op = "at_cmdset_get" /\ last.room = "Z" /\ resolves["Z"] = 1
    /\ "E1" \in ExitsIn(dropped["Z"])
    /\ room_tags["Z"] = <<"alpha">> /\ "alpha" \notin exit_tags["E1"]
    /\ destination["E1"] # None /\ Permitted("E1", "Z")
    /\ "E1" \notin ExitsIn(ndb_zone_cmdset["Z"])

\* C9: a resolution that builds the aggregate while some zone exit's owner is
\* denied the open_exit lock of the room ends with the aggregate cached and
\* registered; it holds no command of a denied exit and a command of every
\* permitted zone exit.
C9_DeniedExitOmitted ==
    \A r \in ZoneRooms :
        (/\ last.op = "at_cmdset_get" /\ last.room = r /\ last.before = <<>>
         /\ \E d \in Exits : TagMatch(d, r) /\ destination[d] # None /\ ~Permitted(d, r))
        => /\ ndb_zone_cmdset[r] # <<>>
           /\ \E i \in 1..Len(cmdset_stack[r]) : cmdset_stack[r][i] = ndb_zone_cmdset[r][1]
           /\ \A e \in Exits :
                (TagMatch(e, r) /\ destination[e] # None) =>
                    (e \in ExitsIn(ndb_zone_cmdset[r]) <=> Permitted(e, r))

\* C9 witness: Z was just resolved with E1 denied and E2 permitted in its zone.
C9_Witness ==
    /\ last.op = "at_cmdset_get" /\ last.room = "Z" /\ last.before = <<>>
    /\ TagMatch("E1", "Z") /\ destination["E1"] # None /\ ~Permitted("E1", "Z")
    /\ TagMatch("E2", "Z") /\ destination["E2"] # None /\ Permitted("E2", "Z")
    /\ ExitsIn(ndb_zone_cmdset["Z"]) = {"E2"}

\* ---------------------------------------------------------------- exit factory properties
\* the room whose lock the factory is to check: the one given, else the exit's
CheckedRoom(e, loc) == IF loc # None THEN loc ELSE location[e]

\* C3: called on an exit that has an owner, create_exit_cmdset returns nothing
\* exactly when the owner fails the open_exit lock of the location given, or
\* of the exit's own room when none is given.
C3_OwnedExitGated ==
    (last.op = "create_exit_cmdset" /\ owner[last.exit] # None) =>
        (last.result = <<>>
            <=> <<owner[last.exit], CheckedRoom(last.exit, last.loc)>> \notin open_exit)

\* C3 witness: an owned exit was refused in a location given explicitly, whose
\* lock its owner fails while passing the lock of the exit's own room.
C3_Witness ==
    /\ last.op = "create_exit_cmdset" /\ last.exit = "E1" /\ last.loc = "Z"
    /\ owner["E1"] = "P1" /\ location["E1"] = "C"
    /\ <<"P1", "C">> \in open_exit /\ <<"P1", "Z">> \notin open_exit
    /\ last.result = <<>>

\* C7: the bundle create_exit_cmdset returns has the priority stored in
\* wizdb.exit_priority when one is stored, and the priority -30 of the exit
\* type otherwise.
C7_PriorityIsOverrideElseDefault ==
    (last.op = "create_exit_cmdset" /\ last.result # <<>>) =>
        last.result[1].priority =
            IF attrs[last.exit]["wiz"]["exit_priority"] # <<>>
            THEN attrs[last.exit]["wiz"]["exit_priority"]
            ELSE <<CollabExit_priority>>

\* ---------------------------------------------------------------- namespace properties
\* C4: after obj.<tag>db.<key> = value, the accessor of that tag reads value
\* for the key, and each of the other five accessors of the object reads for
\* the key what it read before; after del obj.<tag>db.<key> the accessor of
\* that tag reads nothing and the other five read what they read before.
C4_NamespacesDisjoint ==
    /\ last.op = "set" =>
          /\ Read(attrs, holder, last.obj, last.tag, last.key) = <<last.value>>
          /\ \A u \in NsTags \ {last.tag} :
                Read(attrs, holder, last.obj, u, last.key) = last.seen[u]
    /\ last.op = "del" =>
          /\ Read(attrs, holder, last.obj, last.tag, last.key) = <<>>
          /\ \A u \in NsTags \ {last.tag} :
                Read(attrs, holder, last.obj, u, last.key) = last.seen[u]

\* C4 witness: a key was set through wizdb while usrhdb holds another value
\* for it and pubdb none.
C4_Witness ==
    /\ last.op = "set" /\ last.obj = "E1" /\ last.tag = "wiz" /\ last.value = 2
    /\ Read(attrs, holder, "E1", "wiz", last.key) = <<2>>
    /\ Read(attrs, holder, "E1", "usrh", last.key) = <<1>>
    /\ Read(attrs, holder, "E1", "pub", last.key) = <<>>

\* the label <tag>db occurs in an error message
CarriesLabel(error, tag) ==
    \E i \in 1..Len(error.message) : error.message[i] = <<tag, "db">>

\* C5: obj.<tag>db = x and del obj.<tag>db both fail with the Exception whose
\* message carries the label <tag>db, and leave the holders and the stored
\* attributes of the object as they were.
C5_HandleGuarded ==
    last.op \in {"assign", "delete"} =>
        /\ last.error.type = "Exception"
        /\ CarriesLabel(last.error, last.tag)
        /\ holder[last.obj] = last.slots
        /\ attrs[last.obj] = last.stored

\* C6: a holder slot that is filled holds the first holder built for it; an
\* access leaves in the slot the holder it hands out; an access that finds
\* the slot filled hands out the holder found there.
C6_HolderBuiltOnce ==
    /\ \A o \in NsObjects, t \in NsTags :
          holder[o][t] # <<>> => holder[o][t][1].serial = 1
    /\ last.op \in {"get", "set", "del"} =>
          /\ holder[last.obj][last.tag] = <<last.handle>>
          /\ last.had # <<>> => last.had = <<last.handle>>

\* C6 witness: a get found the holder that an earlier access had memoized.
C6_Witness ==
    /\ last.op = "get" /\ last.obj = "E1" /\ last.tag = "imh"
    /\ last.had # <<>> /\ last.had = holder["E1"]["imh"]
    /\ last.handle.serial = 1

\* ---------------------------------------------------------------- appearance properties
\* C8: a return_appearance call with a looker calls evtemplate once, with the
\* owner of the rendered object as run_as and the looker as me; rendering the
\* same object for any other looker gives evtemplate the same run_as; run_as
\* is the looker only when the looker is the owner.
C8_TemplateRunsAsOwner ==
    (last.op = "return_appearance" /\ last.looker # None) =>
        /\ Len(last.call.evtemplate) = 1
        /\ last.call.evtemplate[1].run_as = owner[last.self]
        /\ last.call.evtemplate[1].me = last.looker
        /\ \A other \in Lookers :
              return_appearance(last.self, other).evtemplate[1].run_as
                  = last.call.evtemplate[1].run_as
        /\ last.call.evtemplate[1].run_as = last.looker => last.looker = owner[last.self]

\* C8 witness: P2 looked at a room with a description that P1 owns.
C8_Witness ==
    /\ last.op = "return_appearance" /\ last.self = "Z" /\ last.looker = "P2"
    /\ owner["Z"] = "P1" /\ db_desc["Z"] = "a desc"
    /\ last.call.evtemplate[1].run_as = "P1"
    /\ \E i \in 1..Len(last.call.result[1]) :
          last.call.result[1][i] = <<"rendered", "a desc", "P1", "P2", "Z", "desc">>

\* the contents of a room that its renderer lists for a looker
Visible(self, looker) ==
    {con \in contents[self] : con # looker /\ <<looker, con>> \in view_ok}

\* a piece occurs in a string
HasPiece(string, piece) == \E i \in 1..Len(string) : string[i] = piece

\* C10: return_appearance for a looker on a room with no contents and no or an
\* empty description returns the header line alone; whatever the room holds,
\* the Exits section is in the text exactly when a visible object has a
\* destination and the You see section exactly when a visible object has none.
C10_SectionsFollowContents ==
    (last.op = "return_appearance" /\ last.looker # None) =>
        /\ last.call.result # <<>>
        /\ (contents[last.self] = {} /\ db_desc[last.self] \in {None, ""}) =>
              last.call.result[1] =
                 <<Lit("{c"), get_display_name(last.self, last.looker), Lit("{n\n")>>
        /\ HasPiece(last.call.result[1], Lit("\n{wExits:{n "))
              <=> \E con \in Visible(last.self, last.looker) : destination[con] # None
        /\ HasPiece(last.call.result[1], Lit("\n{wYou see:{n "))
              <=> \E con \in Visible(last.self, last.looker) : destination[con] = None

\* C10 witness: P1 looked at an empty room whose description is the empty
\* string and got the header line.
C10_Witness ==
    /\ last.op = "return_appearance" /\ last.self = "Z" /\ last.looker = "P1"
    /\ contents["Z"] = {} /\ db_desc["Z"] = ""
    /\ last.call.result = <<<<Lit("{c"), get_display_name("Z", "P1"), Lit("{n\n")>>>>

\* C11: return_appearance called without a looker returns None, and it does so
\* without reading self.contents, evaluating a view lock or calling evtemplate.
C11_NoLookerNoOutput ==
    (last.op = "return_appearance" /\ last.looker = None) =>
        /\ last.call.result = <<>>
        /\ ~last.call.contents_read
        /\ last.call.view_checks = <<>>
        /\ last.call.evtemplate = <<>>

\* C11 witness: a room holding visible objects and a description was rendered
\* for no looker.
C11_Witness ==
    /\ last.op = "return_appearance" /\ last.self = "Z" /\ last.looker = None
    /\ contents["Z"] = Items /\ db_desc["Z"] = "a desc"
    /\ <<"P1", "T1">> \in view_ok
    /\ last.call.result = <<>>

\* where a piece stands in a string, 0 when it does not occur
PieceAt(string, piece) ==
    IF HasPiece(string, piece)
    THEN CHOOSE i \in 1..Len(string) : string[i] = piece
    ELSE 0

\* the group in which the piece at place i of a rendered text is listed
GroupAt(string, i) ==
    LET ex == PieceAt(string, Lit("\n{wExits:{n "))
        see == PieceAt(string, Lit("\n{wYou see:{n "))
    IN  IF ex # 0 /\ i > ex /\ (see = 0 \/ i < see) THEN "exits"
        ELSE IF see # 0 /\ i > see
             THEN IF string[i - 1] = Lit("{c") THEN "users" ELSE "things"
             ELSE "none"

\* the group the renderer is to list an object in
GroupOf(con) ==
    IF destination[con] # None THEN "exits"
    ELSE IF has_player[con] THEN "users" ELSE "things"

\* C15: the text return_appearance gives a looker names an object of the room
\* only if the object is not the looker and passes the view lock for the
\* looker; each such object is named once, among the exits if it has a
\* destination, else among the animate if a player controls it, else among
\* the plain objects.
C15_ListedOnceInItsGroup ==
    (last.op = "return_appearance" /\ last.looker # None) =>
        LET string == last.call.result[1]
            named(con) == {i \in 1..Len(string) :
                              string[i] = get_display_name(con, last.looker)}
        IN  \A con \in Items :
              /\ named(con) # {} =>
                    /\ con # last.looker
                    /\ <<last.looker, con>> \in view_ok
                    /\ con \in contents[last.self]
              /\ con \in Visible(last.self, last.looker) =>
                    /\ Cardinality(named(con)) = 1
                    /\ \A i \in named(con) : GroupAt(string, i) = GroupOf(con)

\* C15 witness: P1 looked at a room holding a controlled object with a
\* destination, a controlled character, and a plain object it may not view.
C15_Witness ==
    /\ last.op = "return_appearance" /\ last.self = "Z" /\ last.looker = "P1"
    /\ contents["Z"] = Items
    /\ Visible("Z", "P1") = {"E1", "P2"}
    /\ destination["E1"] # None /\ has_player["E1"] /\ has_player["P2"]
    /\ last.call.result[1] =
          <<Lit("{c"), get_display_name("Z", "P1"), Lit("{n\n"),
            Lit("\n{wExits:{n "), get_display_name("E1", "P1"),
            Lit("\n{wYou see:{n "), Lit("{c"), get_display_name("P2", "P1"), Lit("{n")>>

\* C14: called on an exit that has no owner, create_exit_cmdset makes no
\* collab_check call and returns a command set holding one command, the one
\* moving through the exit, whatever the open_exit locks are; every command
\* set it returns, for an owned exit or not, has duplicates set.
C14_UnownedExitUngated ==
    last.op = "create_exit_cmdset" =>
        /\ owner[last.exit] = None =>
              /\ last.gate = <<>>
              /\ last.result # <<>>
              /\ last.result[1].commands =
                    {[obj |-> last.exit, destination |-> destination[last.exit]]}
        /\ last.result # <<>> => last.result[1].duplicates

\* C14 witness: an exit without an owner got its command set in a room whose
\* lock some player passes and another fails.
C14_Witness ==
    /\ last.op = "create_exit_cmdset" /\ last.exit = "E1" /\ last.loc = "Z"
    /\ owner["E1"] = None
    /\ <<"P1", "Z">> \in open_exit /\ <<"P2", "Z">> \notin open_exit
    /\ last.gate = <<>>
    /\ Cardinality(last.result[1].commands) = 1

\* the create_exit_cmdset calls a build of room r is to make for its tags from
\* the i-th on: per tag, the tagged objects in lookup order that have a
\* destination and are exits
RECURSIVE BuildOrder(_, _)
BuildOrder(r, i) ==
    IF i > Len(room_tags[r]) THEN <<>>
    ELSE LET found == SelectSeq(LookupOrder,
                                LAMBDA e : /\ room_tags[r][i] \in exit_tags[e]
                                           /\ destination[e] # None
                                           /\ e \in Exits)
         IN  [k \in 1..Len(found) |->
                 [self |-> found[k], exidbobj |-> found[k], location |-> r]]
             \o BuildOrder(r, i + 1)

\* C13: a build of the aggregate of room Z calls create_exit_cmdset, with
\* location Z, for the objects found under zone_exit with a zone_room tag of Z
\* that have a destination and have the method, and for no others; the calls
\* follow the order of Z's tags and, under one tag, the order of the lookup;
\* an exit found under two of the tags is called once for each.
C13_FactoryCallsFollowTags ==
    \A r \in ZoneRooms :
        (last.op = "at_cmdset_get" /\ last.room = r /\ last.before = <<>>) =>
            last.calls = BuildOrder(r, 1)

\* C13 witness: Z was built with tags beta then alpha; E2 carries both, E1
\* alpha only, and the thing T1 carries beta and has a destination.
C13_Witness ==
    /\ last.op = "at_cmdset_get" /\ last.room = "Z" /\ last.before = <<>>
    /\ room_tags["Z"] = <<"beta", "alpha">>
    /\ exit_tags["E1"] = {"alpha"} /\ exit_tags["E2"] = {"alpha", "beta"}
    /\ exit_tags["T1"] = {"beta"} /\ destination["T1"] # None
    /\ destination["E1"] # None /\ destination["E2"] # None
    /\ last.calls = <<[self |-> "E2", exidbobj |-> "E2", location |-> "Z"],
                      [self |-> "E1", exidbobj |-> "E1", location |-> "Z"],
                      [self |-> "E2", exidbobj |-> "E2", location |-> "Z"]>>

\* C17: the cmdset stack of a room holds the zone aggregate exactly while the
\* cache holds one: it is empty when the cache is empty and otherwise holds
\* the cached object and nothing else, so a reset leaves no stale aggregate.
C17_RegisteredIffCached ==
    \A r \in ZoneRooms :
        cmdset_stack[r] = IF ndb_zone_cmdset[r] = <<>> THEN <<>>
                          ELSE <<ndb_zone_cmdset[r][1]>>

\* C17 witness: Z was built, reset and built again; the stack holds the second
\* aggregate and not the first.
C17_Witness ==
    /\ last.op = "at_cmdset_get" /\ last.room = "Z" /\ last.before = <<>>
    /\ dropped["Z"] # <<>> /\ ndb_zone_cmdset["Z"] # <<>>
    /\ dropped["Z"][1].id = 1 /\ ndb_zone_cmdset["Z"][1].id = 2
    /\ cmdset_stack["Z"] = <<ndb_zone_cmdset["Z"][1]>>

\* C12: reading the owner property of an object whose owner property was
\* never assigned gives None; after obj.owner = o reading it gives o, the
\* value assigned last; a set or delete of a key in a namespace of the object
\* leaves the value read as it was.
C12_OwnerIsLastAssigned ==
    /\ \A e \in NsSubjects : e \notin owner_assigned => owner_getter(e) = None
    /\ last.op = "owner=" => owner_getter(last.obj) = last.value
    /\ last.op = "owner" => last.result = owner[last.obj]
    /\ last.op \in {"set", "del"} => owner_getter(last.obj) = last.owner

\* C12 witness: E1, whose owner had been assigned, was assigned P2 as owner
\* while P1 owned it.
C12_Witness ==
    /\ last.op = "owner=" /\ last.obj = "E1" /\ last.value = "P2"
    /\ "E1" \in owner_assigned
    /\ owner["P2"] = None
    /\ owner_getter("E1") = "P2"
    /\ \E t \in NsTags : attrs["E1"][t]["protected"] # <<>>

\* C18: check_protected returns what is stored under 'protected' in the imh
\* namespace of the object; setting or deleting 'protected' in one of the
\* other five namespaces leaves the value it returns as it was.
C18_ProtectedReadsImhOnly ==
    /\ last.op = "check_protected" =>
          last.result = attrs[last.obj]["imh"]["protected"]
    /\ (last.op \in {"set", "del"} /\ last.key = "protected" /\ last.tag # "imh") =>
          check_protected(attrs, holder, last.obj).result = last.protected

\* C18 witness: with 1 stored under imh 'protected' of E1, 2 was stored under
\* wiz 'protected'.
C18_Witness ==
    /\ last.op = "set" /\ last.obj = "E1" /\ last.tag = "wiz"
    /\ last.key = "protected" /\ last.value = 2
    /\ last.protected = <<1>>
    /\ check_protected(attrs, holder, "E1").result = <<1>>

\* the CmdSets registered for room r
Registered(r) == {cmdset_stack[r][k] : k \in 1..Len(cmdset_stack[r])}

\* C16: two contexts running at_cmdset_get of one room, or the getter of one
\* namespace of one object, statement by statement can both pass the test
\* before either stores: the aggregate is then built twice and two
\* aggregates are registered while the cache holds one of them, and the
\* holder is constructed twice. The damage is one build per context: with no
\* reset there are never more builds, registrations or holders than contexts,
\* and once every context has returned the cache holds the aggregate
\* registered last.
C16_OneBuildPerContext ==
    \A r \in ZoneRooms :
        /\ rebuilds[r] <= Cardinality(Contexts)
        /\ Len(cmdset_stack[r]) <= rebuilds[r]
        /\ holder[RaceObject][RaceTag] # <<>> =>
              holder[RaceObject][RaceTag][1].serial <= Cardinality(Contexts)
        /\ ((\A c \in Contexts : pc[c] = "idle") /\ cmdset_stack[r] # <<>>) =>
              /\ ndb_zone_cmdset[r] # <<>>
              /\ cmdset_stack[r][Len(cmdset_stack[r])] = ndb_zone_cmdset[r][1]

\* C16 witness: both contexts have returned; Z was built twice with no reset,
\* two different aggregates are registered, the cache holds one of them, and
\* the imh holder of E2 was constructed twice.
C16_Witness ==
    /\ \A c \in Contexts : pc[c] = "idle"
    /\ rebuilds["Z"] = 2 /\ dropped["Z"] = <<>>
    /\ Cardinality(Registered("Z")) = 2
    /\ ndb_zone_cmdset["Z"] # <<>>
    /\ ndb_zone_cmdset["Z"][1] \in Registered("Z")
    /\ holder[RaceObject][RaceTag] # <<>>
    /\ holder[RaceObject][RaceTag][1].serial = 2

====
